---- MODULE Spec2Model ----
(***************************************************************************)
(* Model of the pereval record store (src/db_manager.py) and of the        *)
(* handlers of the REST service (src/main.py).                             *)
(*                                                                         *)
(* Spec        one client of the store, each call run to its end           *)
(* SpecRead    the same with the store's two reads                         *)
(* SpecService the handlers of the service over the store                 *)
(* SpecConc    several clients and the moderator, statement by statement   *)
(* SpecConn    one manager with its connection, the storage failing calls  *)
(*                                                                         *)
(* In all but SpecConn the storage is taken to answer every statement:     *)
(* the calls are modelled from the line after "if not self.connect()", and *)
(* the connection (conn) is not followed.                                  *)
(*                                                                         *)
(* A JSON object is a function from key strings to values; a JSON list is  *)
(* a sequence.  The table public.pereval_added is the function db from ids *)
(* to rows [date_added, raw_data, images, status].                         *)
(***************************************************************************)
EXTENDS Naturals, Sequences, FiniteSets, TLC

VARIABLES
    db,      \* the rows of public.pereval_added, by id
    nextId,  \* the value the id sequence hands out next
    ret,     \* what the call made last returned
    proc,    \* per client: where it stands inside update_pereval, and its locals
    conn     \* the manager's connection and cursor, as SpecConn follows them

vars == <<db, nextId, ret, proc, conn>>

(***************************************************************************)
(* Bounds.                                                                 *)
(***************************************************************************)
MaxRecords == 1

\* The ids the table gives out where the connection is followed (SpecConn).
MaxCreates == 2

(***************************************************************************)
(* Values.                                                                 *)
(***************************************************************************)
Restrict(f, K) == [k \in K |-> f[k]]

\* A time string "2024-06-30<sep>15:00:00<frac><tz>", or a string that is no
\* ISO-8601 time at all (iso = FALSE).
TimeStr(sep, frac, tz) == [iso |-> TRUE, sep |-> sep, frac |-> frac, tz |-> tz]
NotATime == [iso |-> FALSE, sep |-> "", frac |-> "", tz |-> ""]
TimeZ == TimeStr("T", "", "Z")
TimeUtc == TimeStr("T", "", "+00:00")
TimeSpace == TimeStr(" ", "", "")
TimeSpaceFrac == TimeStr(" ", ".5", "")

\* datetime.fromisoformat(s.replace('Z', '+00:00')).isoformat(timespec='seconds')
IsoFormatSeconds(t) ==
    [iso |-> TRUE, sep |-> "T", frac |-> "",
     tz |-> IF t.tz = "Z" THEN "+00:00" ELSE t.tz]

User1 == [email |-> "user1@test.com", phone |-> "1"]
User2 == [email |-> "user2@test.com", phone |-> "2"]
Users == {User1, User2}

CoordKeys == {"latitude", "longitude", "height"}
Coords46 == [latitude |-> "46.0", longitude |-> "7.0", height |-> "2500"]
Coords47 == [latitude |-> "47.0", longitude |-> "8.0", height |-> "1500"]
CoordsHeight == [height |-> "2600"]

Image(n) == [data |-> n, title |-> n]
Images12 == <<Image("img1"), Image("img2")>>
Images3 == <<Image("img3")>>

Statuses == {"new", "pending", "accepted", "rejected"}

AllKeys == {"title", "add_time", "user", "coords", "images"}

\* The documents handed to add_pereval: full ones, with an add_time that is
\* an ISO time or is none, and one without the optional add_time and images.
FullDoc(u, t) ==
    [title |-> "T1", add_time |-> t, user |-> u,
     coords |-> Coords46, images |-> Images12]

MinimalDoc(u) == Restrict(FullDoc(u, TimeZ), AllKeys \ {"add_time", "images"})

SubmitDocs ==
    { FullDoc(User1, TimeZ), FullDoc(User2, NotATime), MinimalDoc(User2) }

\* The partial documents handed to update_pereval: every choice of keys.
PatchKeys == {"add_time", "user", "coords", "images"}

FullPatch ==
    [add_time |-> TimeZ, user |-> User2,
     coords |-> CoordsHeight, images |-> Images3]

Patches == { Restrict(FullPatch, K) : K \in SUBSET PatchKeys }

\* The request bodies sent to PATCH /submitData/{id}: every choice of keys.
FullBody ==
    [title |-> "T2", add_time |-> TimeZ, user |-> User2,
     coords |-> Coords47, images |-> Images3]

Bodies == { Restrict(FullBody, K) : K \in SUBSET AllKeys }

\* A patch whose keys are named as the columns of the table are.
ColumnsPatch == [id |-> 99, date_added |-> TimeUtc, status |-> "accepted"]

\* A document whose keys are named as the columns of the table are.
ColumnsDoc ==
    [title |-> "T1", user |-> User1, coords |-> Coords46,
     id |-> 99, date_added |-> TimeUtc, status |-> "accepted"]

\* The email addresses asked for: two that submit, one that never does.
Emails == {"user1@test.com", "user2@test.com", "nonexistent@test.com"}

\* The processes that each hold a DatabaseManager, with its own connection.
Clients == {"c1", "c2"}

\* Python's None.
None == [none |-> TRUE]

(***************************************************************************)
(* connect, disconnect                                                     *)
(***************************************************************************)
\* self.connection and self.cursor: "None", or the connection object ("A" or
\* "B": a connection newly opened is another object than the one before)
\* with its closed flag, and the connection the cursor was made on.
NoConn == [connection |-> "None", closed |-> FALSE, cursor |-> "None"]

\* self.connection and not self.connection.closed
Live(c) == c.connection # "None" /\ ~c.closed

\* The object psycopg2.connect returns.
Fresh(c) == IF c.connection = "A" THEN "B" ELSE "A"

\* Mutant of ConnectOutcome: no look at the connection held, a new one is
\* opened on every call.
ConnectOutcomeAlways(c, reachable) ==
    IF reachable
    THEN [conn |-> [connection |-> Fresh(c), closed |-> FALSE,
                    cursor |-> Fresh(c)],
          result |-> TRUE, attempts |-> 1]
    ELSE [conn |-> NoConn, result |-> FALSE, attempts |-> 1]

\* connect(): what it leaves and returns, the server being reachable or not.
ConnectOutcome(c, reachable) ==
    IF Live(c)
    THEN [conn |-> c, result |-> TRUE, attempts |-> 0]
    ELSE IF reachable
    THEN [conn |-> [connection |-> Fresh(c), closed |-> FALSE,
                    cursor |-> Fresh(c)],
          result |-> TRUE, attempts |-> 1]
    ELSE [conn |-> NoConn, result |-> FALSE, attempts |-> 1]

CallRet(op, id, state, kind, value, connects, executes) ==
    [op |-> op, id |-> id, state |-> state, kind |-> kind, status |-> "",
     value |-> value, connects |-> connects, executes |-> executes]

Connect(reachable) ==
    /\ conn' = ConnectOutcome(conn, reachable).conn
    /\ ret' = CallRet("connect", 0, 0, "connect",
                      ConnectOutcome(conn, reachable).result,
                      ConnectOutcome(conn, reachable).attempts, 0)
    /\ UNCHANGED <<db, nextId, proc>>

\* Mutant of DisconnectOutcome: the connection closed, the attributes kept.
DisconnectOutcomeKeeps(c) ==
    IF c.connection = "None" THEN c ELSE [c EXCEPT !.closed = TRUE]

\* disconnect(): cursor and connection closed if there, both set to None.
DisconnectOutcome(c) == NoConn

Disconnect ==
    /\ conn' = DisconnectOutcome(conn)
    /\ ret' = CallRet("disconnect", 0, 0, "disconnect", None, 0, 0)
    /\ UNCHANGED <<db, nextId, proc>>

(***************************************************************************)
(* add_pereval                                                             *)
(***************************************************************************)
NowStamp == [src |-> "now", frac |-> "", tz |-> ""]

\* Mutant of DateAdded: 'Z' not replaced, so that fromisoformat raises
\* ValueError on it and the current time is taken.
DateAddedStrict(data) ==
    IF "add_time" \notin DOMAIN data THEN NowStamp
    ELSE LET s == data.add_time IN
         IF ~s.iso \/ s.tz = "Z" THEN NowStamp
         ELSE IF s.sep = " "
              THEN IF s.frac = "" /\ s.tz = ""
                   THEN [src |-> "add_time", frac |-> "", tz |-> ""]
                   ELSE NowStamp
         ELSE [src |-> "add_time", frac |-> s.frac, tz |-> s.tz]

\* date_added as add_pereval computes it from data['add_time'].
DateAdded(data) ==
    IF "add_time" \notin DOMAIN data THEN NowStamp
    ELSE LET s == data.add_time IN
         IF ~s.iso THEN NowStamp
         ELSE IF s.tz = "Z"
              THEN [src |-> "add_time", frac |-> s.frac, tz |-> "+00:00"]
         ELSE IF s.sep = " "
              THEN IF s.frac = "" /\ s.tz = ""
                   THEN [src |-> "add_time", frac |-> "", tz |-> ""]
                   ELSE NowStamp
         ELSE [src |-> "add_time", frac |-> s.frac, tz |-> s.tz]

\* json.dumps({"images": data.get('images', [])})
ImagesJson(data) ==
    [images |-> IF "images" \in DOMAIN data THEN data.images ELSE <<>>]

\* Mutant of NewRow: the status left to a column default of 'pending'.
NewRowDefaultStatus(data) ==
    [date_added |-> DateAdded(data),
     raw_data   |-> data,
     images     |-> ImagesJson(data),
     status     |-> "pending"]

NewRow(data) ==
    [date_added |-> DateAdded(data),
     raw_data   |-> data,
     images     |-> ImagesJson(data),
     status     |-> "new"]

Ret(op, id, state, kind, status) ==
    [op |-> op, id |-> id, state |-> state, kind |-> kind, status |-> status]

NoData == [k \in {} |-> ""]

AddPereval(data) ==
    /\ nextId <= MaxRecords
    /\ db' = [i \in DOMAIN db \cup {nextId} |->
                IF i = nextId THEN NewRow(data) ELSE db[i]]
    /\ nextId' = nextId + 1
    /\ ret' = Ret("add", nextId, 1, "added", "")
    /\ UNCHANGED proc
    /\ UNCHANGED conn

(***************************************************************************)
(* update_pereval                                                          *)
(***************************************************************************)
\* Mutants of MergeRawData.
\* merged_raw_data.update(new_data): the user block is overwritten too.
MergeRawDataOverwrite(cur, new_data) ==
    [k \in DOMAIN cur \cup DOMAIN new_data |->
        IF k \in DOMAIN new_data THEN new_data[k] ELSE cur[k]]

\* The patch taken as the whole document: only the user block is carried over.
MergeRawDataPatchOnly(cur, new_data) ==
    [k \in DOMAIN new_data \cup {"user"} |->
        IF k = "user" THEN cur.user ELSE new_data[k]]

\* coords merged key by key into the stored coords.
MergeRawDataDeep(cur, new_data) ==
    LET over == DOMAIN new_data \ {"user"}
        deep(k) == [n \in DOMAIN cur[k] \cup DOMAIN new_data[k] |->
                      IF n \in DOMAIN new_data[k]
                      THEN new_data[k][n] ELSE cur[k][n]]
    IN  [k \in DOMAIN cur \cup over |->
           IF k \in over
           THEN IF k = "coords" /\ k \in DOMAIN cur THEN deep(k)
                ELSE new_data[k]
           ELSE cur[k]]

\* The patch's images appended to the stored ones instead of replacing them.
MergeRawDataAppendImages(cur, new_data) ==
    LET over == DOMAIN new_data \ {"user"}
    IN  [k \in DOMAIN cur \cup over \cup {"user"} |->
           IF k = "user"
           THEN IF "user" \in DOMAIN cur THEN cur.user ELSE NoData
           ELSE IF k \in over
           THEN IF k = "images" /\ k \in DOMAIN cur
                THEN cur[k] \o new_data[k]
                ELSE new_data[k]
           ELSE cur[k]]

\* Step 2 of update_pereval: the document to persist.
MergeRawData(cur, new_data) ==
    LET over == DOMAIN new_data \ {"user"}
        merged == [k \in DOMAIN cur \cup over |->
                     IF k \in over THEN new_data[k] ELSE cur[k]]
        user_data_from_db ==
            IF "user" \in DOMAIN cur THEN cur.user ELSE NoData
        with_user == [k \in DOMAIN merged \cup {"user"} |->
                        IF k = "user" THEN user_data_from_db ELSE merged[k]]
    IN  IF "add_time" \in DOMAIN with_user /\ with_user.add_time.iso
        THEN [with_user EXCEPT !.add_time = IsoFormatSeconds(@)]
        ELSE with_user

\* Mutant of WriteRow: UPDATE ... SET raw_data only.
WriteRowRawOnly(rows, id, cur, new_data) ==
    IF id \in DOMAIN rows
    THEN [rows EXCEPT ![id].raw_data = MergeRawData(cur, new_data)]
    ELSE rows

\* Mutant of WriteRow: UPDATE ... SET raw_data, images, status, the status
\* taken from the patch when the patch names one.
WriteRowWithStatus(rows, id, cur, new_data) ==
    IF id \in DOMAIN rows
    THEN [rows EXCEPT ![id].raw_data = MergeRawData(cur, new_data),
                      ![id].images = ImagesJson(new_data),
                      ![id].status = IF "status" \in DOMAIN new_data
                                     THEN new_data.status ELSE @]
    ELSE rows

\* Step 3 of update_pereval: UPDATE ... SET raw_data, images WHERE id.
WriteRow(rows, id, cur, new_data) ==
    IF id \in DOMAIN rows
    THEN [rows EXCEPT ![id].raw_data = MergeRawData(cur, new_data),
                      ![id].images = ImagesJson(new_data)]
    ELSE rows

\* Mutant of Editable: only a rejected record is closed to edits.
EditableUnlessRejected(status) == status # "rejected"

\* Step 1 of update_pereval: whether the row read lets the edit go on.
Editable(status) == status = "new"

\* Mutant of UpdateOutcome: a missing row answered as a refused edit
\* (if not current_pereval or current_pereval[0] != 'new').
UpdateOutcomeCollapsed(rows, id, new_data) ==
    IF id \notin DOMAIN rows
    THEN [db |-> rows, ret |-> Ret("update", id, 0, "forbidden", "")]
    ELSE IF ~Editable(rows[id].status)
    THEN [db |-> rows,
          ret |-> Ret("update", id, 0, "forbidden", rows[id].status)]
    ELSE [db |-> WriteRow(rows, id, rows[id].raw_data, new_data),
          ret |-> Ret("update", id, 1, "updated", "")]

\* update_pereval run without any other statement in between.
UpdateOutcome(rows, id, new_data) ==
    IF id \notin DOMAIN rows
    THEN [db |-> rows, ret |-> Ret("update", id, 0, "not_found", "")]
    ELSE IF ~Editable(rows[id].status)
    THEN [db |-> rows,
          ret |-> Ret("update", id, 0, "forbidden", rows[id].status)]
    ELSE [db |-> WriteRow(rows, id, rows[id].raw_data, new_data),
          ret |-> Ret("update", id, 1, "updated", "")]

\* The message of the tuple returned: which of the three texts it is, and
\* the id or the status the text is formatted with.
Message(ret_of_call) ==
    [text |-> ret_of_call.kind,
     arg  |-> IF ret_of_call.kind = "not_found" THEN ret_of_call.id
              ELSE ret_of_call.status]

\* The Python value update_pereval returns: the tuple (state, message).
UpdateReturn(rows, id, new_data) ==
    LET ret_of_call == UpdateOutcome(rows, id, new_data).ret
    IN  [type |-> "tuple",
         items |-> <<ret_of_call.state, Message(ret_of_call)>>]

UpdatePereval(id, new_data) ==
    /\ db' = UpdateOutcome(db, id, new_data).db
    /\ ret' = UpdateOutcome(db, id, new_data).ret
    /\ UNCHANGED <<nextId, proc>>
    /\ UNCHANGED conn

(***************************************************************************)
(* update_pereval, statement by statement, as a client among others runs   *)
(* it: the connection is in autocommit mode, so the SELECT and the UPDATE  *)
(* are two transactions and other statements may run between them.         *)
(***************************************************************************)
Idle == [pc |-> "idle"]

\* SELECT status, raw_data ... ; the two early returns; the locals kept.
UpdateSelect(c, id, new_data) ==
    /\ proc[c].pc = "idle"
    /\ IF id \in DOMAIN db /\ Editable(db[id].status)
       THEN /\ proc' = [proc EXCEPT
                          ![c] = [pc |-> "selected", pereval_id |-> id,
                                  new_data |-> new_data,
                                  current_raw_data_obj |-> db[id].raw_data]]
            /\ UNCHANGED ret
       ELSE /\ ret' = UpdateOutcome(db, id, new_data).ret
            /\ UNCHANGED proc
    /\ UNCHANGED <<db, nextId>>
    /\ UNCHANGED conn

\* The merge, then UPDATE ... WHERE id = %s; return 1.
UpdateWrite(c) ==
    /\ proc[c].pc = "selected"
    /\ db' = WriteRow(db, proc[c].pereval_id, proc[c].current_raw_data_obj,
                      proc[c].new_data)
    /\ ret' = Ret("update", proc[c].pereval_id, 1, "updated", "")
    /\ proc' = [proc EXCEPT ![c] = Idle]
    /\ UNCHANGED nextId
    /\ UNCHANGED conn

(***************************************************************************)
(* get_pereval_by_id, get_perevals_by_email                                *)
(***************************************************************************)
\* result[1].isoformat() of the date_added read
IsoFormat(d) ==
    [src |-> d.src, iso |-> TRUE, sep |-> "T", frac |-> d.frac, tz |-> d.tz]

\* The dict both reads build from a row read.
PerevalData(rows, id) ==
    [id          |-> id,
     date_added  |-> IsoFormat(rows[id].date_added),
     raw_data    |-> rows[id].raw_data,
     images_json |-> rows[id].images,
     status      |-> rows[id].status]

\* What get_pereval_by_id returns.
GetOutcome(rows, pereval_id) ==
    IF pereval_id \in DOMAIN rows THEN PerevalData(rows, pereval_id) ELSE None

GetPerevalById(pereval_id) ==
    /\ ret' = [op |-> "get", id |-> pereval_id, state |-> 0, kind |-> "get",
               status |-> "", value |-> GetOutcome(db, pereval_id)]
    /\ UNCHANGED <<db, nextId, proc>>
    /\ UNCHANGED conn

\* WHERE raw_data->'user'->>'email' = %s
EmailMatches(rows, email) ==
    { i \in DOMAIN rows :
        /\ "user" \in DOMAIN rows[i].raw_data
        /\ "email" \in DOMAIN rows[i].raw_data.user
        /\ rows[i].raw_data.user.email = email }

\* Mutant of EmailOutcomes: the SELECT without its WHERE clause.
EmailOutcomesAll(rows, email) ==
    LET n == Cardinality(DOMAIN rows)
        orders == { f \in [1..n -> DOMAIN rows] :
                      \A a, b \in 1..n : a # b => f[a] # f[b] }
    IN  { [k \in 1..n |-> PerevalData(rows, f[k])] : f \in orders }

\* The lists get_perevals_by_email may return: the SELECT has no ORDER BY,
\* the rows come in the order the storage gives them.
EmailOutcomes(rows, email) ==
    LET found == EmailMatches(rows, email)
        n == Cardinality(found)
        orders == { f \in [1..n -> found] :
                      \A a, b \in 1..n : a # b => f[a] # f[b] }
    IN  { [k \in 1..n |-> PerevalData(rows, f[k])] : f \in orders }

GetPerevalsByEmail(email) ==
    /\ \E perevals_list \in EmailOutcomes(db, email) :
          ret' = [op |-> "by_email", id |-> 0, state |-> 0, kind |-> email,
                  status |-> "", value |-> perevals_list]
    /\ UNCHANGED <<db, nextId, proc>>
    /\ UNCHANGED conn

(***************************************************************************)
(* The four calls of the store with their first lines and their except     *)
(* clauses: "if not self.connect(): return ..." and "except Error".  What   *)
(* the storage does to a call (env):                                       *)
(*   "ok"           it is reachable and runs the statements                *)
(*   "unreachable"  it cannot be reached: connect() fails, or, on a        *)
(*                  connection held, the statement raises and the          *)
(*                  connection is closed from then on                      *)
(*   "error"        it is reachable and the statement raises an Error      *)
(* A statement that raises has written nothing.                            *)
(***************************************************************************)
Envs == {"ok", "unreachable", "error"}

\* Mutant of Begin: a connection that cannot be made is tried once more,
\* and a statement that raised is run again.
BeginRetrying(c, env) ==
    LET first == ConnectOutcome(c, env # "unreachable")
    IN  IF ~first.result
        THEN [conn |-> first.conn, stage |-> "no_connection",
              connects |-> first.attempts + 1, executes |-> 0]
        ELSE IF env = "ok"
        THEN [conn |-> first.conn, stage |-> "ok",
              connects |-> first.attempts, executes |-> 1]
        ELSE [conn |-> first.conn, stage |-> "ok",
              connects |-> first.attempts, executes |-> 2]

\* The call up to the outcome of its first statement: the connection
\* left, how far the call got, the connections tried, the statements run.
Begin(c, env) ==
    LET first == ConnectOutcome(c, env # "unreachable")
    IN  IF ~first.result
        THEN [conn |-> first.conn, stage |-> "no_connection",
              connects |-> first.attempts, executes |-> 0]
        ELSE IF env = "ok"
        THEN [conn |-> first.conn, stage |-> "ok",
              connects |-> first.attempts, executes |-> 1]
        ELSE [conn |-> IF env = "unreachable"
                       THEN [first.conn EXCEPT !.closed = TRUE]
                       ELSE first.conn,
              stage |-> "storage_error",
              connects |-> first.attempts, executes |-> 1]

\* The id of the row of an INSERT: the statement names the columns
\* date_added, raw_data, images and status, and has the table give the id
\* (RETURNING id); the document goes to raw_data whole, its keys are not
\* read for it.
AssignedIdFromDocument(next_id, data) ==
    IF "id" \in DOMAIN data THEN data.id ELSE next_id

AssignedId(next_id, data) == next_id

\* add_pereval.  burns: whether the INSERT that raised had drawn its id
\* from the sequence before it raised.
AddCallOutcome(rows, next_id, c, data, env, burns) ==
    LET b == Begin(c, env)
    IN  IF b.stage = "ok"
        THEN [db |-> [i \in DOMAIN rows \cup {AssignedId(next_id, data)} |->
                        IF i = AssignedId(next_id, data)
                        THEN NewRow(data) ELSE rows[i]],
              nextId |-> next_id + 1, conn |-> b.conn,
              ret |-> CallRet("add", AssignedId(next_id, data), 1, "added",
                              [type |-> "int",
                               items |-> AssignedId(next_id, data)],
                              b.connects, b.executes)]
        ELSE [db |-> rows,
              nextId |-> IF b.stage = "storage_error" /\ burns
                         THEN next_id + 1 ELSE next_id,
              conn |-> b.conn,
              ret |-> CallRet("add", 0, 0, b.stage, None,
                              b.connects, b.executes)]

AddPerevalCall(data, env, burns) ==
    /\ nextId <= MaxCreates
    /\ db' = AddCallOutcome(db, nextId, conn, data, env, burns).db
    /\ nextId' = AddCallOutcome(db, nextId, conn, data, env, burns).nextId
    /\ conn' = AddCallOutcome(db, nextId, conn, data, env, burns).conn
    /\ ret' = AddCallOutcome(db, nextId, conn, data, env, burns).ret
    /\ UNCHANGED proc

\* get_pereval_by_id: the dict, or None (no row, no connection, an Error).
GetCallOutcome(rows, c, pereval_id, env) ==
    LET b == Begin(c, env)
    IN  [conn |-> b.conn,
         ret |-> CallRet("get", pereval_id, 0,
                         IF b.stage = "ok" THEN "get" ELSE b.stage,
                         IF b.stage = "ok" THEN GetOutcome(rows, pereval_id)
                         ELSE None,
                         b.connects, b.executes)]

GetPerevalByIdCall(pereval_id, env) ==
    /\ conn' = GetCallOutcome(db, conn, pereval_id, env).conn
    /\ ret' = GetCallOutcome(db, conn, pereval_id, env).ret
    /\ UNCHANGED <<db, nextId, proc>>

\* get_perevals_by_email: a list, or None (no connection, an Error).
EmailCallOutcomes(rows, c, email, env) ==
    LET b == Begin(c, env)
    IN  IF b.stage = "ok"
        THEN { [conn |-> b.conn,
                ret |-> CallRet("by_email", 0, 0, email,
                                [type |-> "list", items |-> perevals_list],
                                b.connects, b.executes)] :
                 perevals_list \in EmailOutcomes(rows, email) }
        ELSE { [conn |-> b.conn,
                ret |-> CallRet("by_email", 0, 0, b.stage, None,
                                b.connects, b.executes)] }

GetPerevalsByEmailCall(email, env) ==
    /\ \E out \in EmailCallOutcomes(db, conn, email, env) :
          conn' = out.conn /\ ret' = out.ret
    /\ UNCHANGED <<db, nextId, proc>>

\* update_pereval.  fail_at: the statement that raises when one does, the
\* SELECT (1) or the UPDATE (2); the UPDATE is reached only for a row that
\* is there and editable.
UpdateCallOutcome(rows, c, id, new_data, env, fail_at) ==
    LET b == Begin(c, env)
        done == UpdateOutcome(rows, id, new_data)
        reaches_update == id \in DOMAIN rows /\ Editable(rows[id].status)
    IN  IF b.stage = "ok"
        THEN [db |-> done.db, conn |-> b.conn,
              ret |-> CallRet("update", id, done.ret.state, done.ret.kind,
                              [type |-> "tuple",
                               items |-> <<done.ret.state, Message(done.ret)>>],
                              b.connects,
                              IF reaches_update THEN 2 ELSE 1)]
        ELSE [db |-> rows, conn |-> b.conn,
              ret |-> CallRet("update", id, 0, b.stage,
                              [type |-> "tuple",
                               items |-> <<0, [text |-> b.stage, arg |-> ""]>>],
                              b.connects,
                              IF b.stage = "storage_error" /\ reaches_update
                              THEN fail_at ELSE b.executes)]

UpdatePerevalCall(id, new_data, env, fail_at) ==
    /\ db' = UpdateCallOutcome(db, conn, id, new_data, env, fail_at).db
    /\ conn' = UpdateCallOutcome(db, conn, id, new_data, env, fail_at).conn
    /\ ret' = UpdateCallOutcome(db, conn, id, new_data, env, fail_at).ret
    /\ UNCHANGED <<nextId, proc>>

(***************************************************************************)
(* PATCH /submitData/{pereval_id}                                          *)
(***************************************************************************)
\* The fields SubmitDataRequest requires, and Coords requiring its three.
RequiredKeys == {"title", "user", "coords"}

ValidBody(body) ==
    /\ RequiredKeys \subseteq DOMAIN body
    /\ DOMAIN body.coords = CoordKeys

\* Mutant of HasUserData: the check for user data left out.
HasUserDataNever(update_data_dict) == FALSE

\* 'user' in update_data_dict
HasUserData(update_data_dict) == "user" \in DOMAIN update_data_dict

\* The positional arguments patch_pereval passes to update_pereval, and the
\* parameters update_pereval takes (self apart).
PatchCallArgs == 3
UpdatePerevalParams == 2

Resp(id, http, state, kind, status) ==
    [op |-> "patch", id |-> id, http |-> http, state |-> state,
     kind |-> kind, status |-> status]

PatchOutcome(rows, id, body) ==
    IF ~ValidBody(body)
    THEN [db |-> rows, ret |-> Resp(id, 422, 0, "unprocessable", "")]
    ELSE IF id \notin DOMAIN rows
    THEN [db |-> rows, ret |-> Resp(id, 404, 0, "not_found", "")]
    ELSE IF rows[id].status # "new"
    THEN [db |-> rows, ret |-> Resp(id, 200, 0, "forbidden", rows[id].status)]
    ELSE IF HasUserData(body)
    THEN [db |-> rows, ret |-> Resp(id, 400, 0, "user_data", "")]
    \* update_pereval(pereval_id, update_data_dict, images_to_update): a
    \* TypeError when the arguments are not as many as the parameters
    ELSE IF PatchCallArgs # UpdatePerevalParams
    THEN [db |-> rows, ret |-> Resp(id, 500, 0, "server_error", "")]
    ELSE [db |-> UpdateOutcome(rows, id,
                     Restrict(body, DOMAIN body \ {"images"})).db,
          ret |-> Resp(id, 200, 1, "updated", "")]

PatchPereval(id, body) ==
    /\ db' = PatchOutcome(db, id, body).db
    /\ ret' = PatchOutcome(db, id, body).ret
    /\ UNCHANGED <<nextId, proc>>
    /\ UNCHANGED conn

(***************************************************************************)
(* POST /submitData                                                        *)
(***************************************************************************)
\* The positional arguments submit_data passes to add_pereval, and the
\* parameters add_pereval takes (self apart).
SubmitCallArgs == 2
AddPerevalParams == 1

SubmitResp(id, http, state, kind) ==
    [op |-> "submit", id |-> id, http |-> http, state |-> state,
     kind |-> kind, status |-> ""]

SubmitOutcome(rows, next_id, body) ==
    IF ~ValidBody(body)
    THEN [db |-> rows, nextId |-> next_id,
          ret |-> SubmitResp(0, 422, 0, "unprocessable")]
    \* add_pereval(submit_data_dict, images_data): a TypeError when the
    \* arguments are not as many as the parameters, caught by the handler's
    \* except Exception
    ELSE IF SubmitCallArgs # AddPerevalParams
    THEN [db |-> rows, nextId |-> next_id,
          ret |-> SubmitResp(0, 500, 0, "server_error")]
    ELSE LET submit_data_dict == Restrict(body, DOMAIN body \ {"images"})
         IN  [db |-> [i \in DOMAIN rows \cup {next_id} |->
                        IF i = next_id THEN NewRow(submit_data_dict)
                        ELSE rows[i]],
              nextId |-> next_id + 1,
              ret |-> SubmitResp(next_id, 200, 1, "added")]

SubmitData(body) ==
    /\ db' = SubmitOutcome(db, nextId, body).db
    /\ nextId' = SubmitOutcome(db, nextId, body).nextId
    /\ ret' = SubmitOutcome(db, nextId, body).ret
    /\ UNCHANGED proc
    /\ UNCHANGED conn

(***************************************************************************)
(* GET /submitData/{pereval_id}, GET /submitData?user__email=              *)
(***************************************************************************)
\* isinstance(img, dict) and 'data' in img and 'title' in img
WellFormed(img) == {"data", "title"} \subseteq DOMAIN img

\* The images of the response: pereval_data.get('images', []), and of it
\* the well-formed entries, each cut down to data and title.
FormattedImages(pereval_data) ==
    LET images_from_db ==
            IF "images" \in DOMAIN pereval_data
            THEN pereval_data.images ELSE <<>>
        kept == SelectSeq(images_from_db, WellFormed)
    IN  [k \in DOMAIN kept |-> [data |-> kept[k].data, title |-> kept[k].title]]

\* Mutant of Shaped: a key the document has is not set again.
ShapedDocumentWins(pereval_data) ==
    LET response_data == pereval_data.raw_data
    IN  [k \in DOMAIN response_data \cup {"id", "date_added", "status", "images"} |->
           IF k = "images" THEN FormattedImages(pereval_data)
           ELSE IF k \in DOMAIN response_data THEN response_data[k]
           ELSE IF k = "id" THEN pereval_data.id
           ELSE IF k = "date_added" THEN pereval_data.date_added
           ELSE pereval_data.status]

\* The response object: raw_data with id, date_added, status and images set.
Shaped(pereval_data) ==
    LET response_data == pereval_data.raw_data
    IN  [k \in DOMAIN response_data \cup {"id", "date_added", "status", "images"} |->
           IF k = "id" THEN pereval_data.id
           ELSE IF k = "date_added" THEN pereval_data.date_added
           ELSE IF k = "status" THEN pereval_data.status
           ELSE IF k = "images" THEN FormattedImages(pereval_data)
           ELSE response_data[k]]

FetchResp(op, id, http, kind, body) ==
    [op |-> op, id |-> id, http |-> http, state |-> 0, kind |-> kind,
     status |-> "", body |-> body]

FetchOutcome(rows, pereval_id) ==
    LET pereval_data == GetOutcome(rows, pereval_id)
    IN  IF pereval_data = None
        THEN FetchResp("fetch", pereval_id, 404, "not_found", NoData)
        ELSE IF DOMAIN pereval_data.raw_data = {}
        THEN FetchResp("fetch", pereval_id, 404, "incomplete", NoData)
        ELSE FetchResp("fetch", pereval_id, 200, "found", Shaped(pereval_data))

FetchPereval(pereval_id) ==
    /\ ret' = FetchOutcome(db, pereval_id)
    /\ UNCHANGED <<db, nextId, proc>>
    /\ UNCHANGED conn

\* The "data" lists the handler may answer with, one per order of the rows.
FetchByEmailOutcomes(rows, user__email) ==
    { [k \in DOMAIN perevals_data |-> Shaped(perevals_data[k])] :
        perevals_data \in EmailOutcomes(rows, user__email) }

FetchByEmail(user__email) ==
    /\ \E formatted_list \in FetchByEmailOutcomes(db, user__email) :
          ret' = FetchResp("fetch_by_email", 0, 200, user__email,
                           formatted_list)
    /\ UNCHANGED <<db, nextId, proc>>
    /\ UNCHANGED conn

(***************************************************************************)
(* The moderation process, outside this program, sets the status.          *)
(***************************************************************************)
Moderate(id, s) ==
    /\ id \in DOMAIN db
    /\ s # "new"
    /\ db[id].status # s
    /\ db' = [db EXCEPT ![id].status = s]
    /\ UNCHANGED <<nextId, ret, proc>>
    /\ UNCHANGED conn

(***************************************************************************)
(* One client of the store, each call run to its end.                      *)
(***************************************************************************)
NoRet == [op |-> "none", id |-> 0, state |-> 0, kind |-> "none", status |-> ""]

Init ==
    /\ db = [i \in {} |-> NewRow(NoData)]
    /\ nextId = 1
    /\ ret = NoRet
    /\ proc = [c \in Clients |-> Idle]
    /\ conn = NoConn

Ids == 1..MaxRecords

Next ==
    \/ \E data \in SubmitDocs : AddPereval(data)
    \/ \E id \in Ids, new_data \in Patches : UpdatePereval(id, new_data)
    \/ \E id \in Ids, s \in Statuses : Moderate(id, s)

Spec == Init /\ [][Next]_vars

(***************************************************************************)
(* The REST service: its four handlers, over a store whose records come to *)
(* exist through add_pereval.                                              *)
(***************************************************************************)
ServiceDocs ==
    { FullDoc(u, t) : u \in Users,
                      t \in {TimeZ, TimeSpace, TimeSpaceFrac, NotATime} }
        \cup { MinimalDoc(u) : u \in Users }
        \cup { ColumnsDoc }

NextService ==
    \/ \E data \in ServiceDocs : AddPereval(data)
    \/ \E body \in Bodies : SubmitData(body)
    \/ \E id \in Ids, body \in Bodies : PatchPereval(id, body)
    \/ \E id \in Ids : FetchPereval(id)
    \/ \E email \in Emails : FetchByEmail(email)
    \/ \E id \in Ids, s \in Statuses : Moderate(id, s)

SpecService == Init /\ [][NextService]_vars

(***************************************************************************)
(* Several clients and the moderation process, statement by statement.     *)
(***************************************************************************)
ConcDocs == { FullDoc(User1, TimeZ) }

ConcPatches == { [title |-> "T2"], [images |-> Images3] }

NextConc ==
    \/ \E data \in ConcDocs : AddPereval(data)
    \/ \E c \in Clients, id \in Ids, new_data \in ConcPatches :
          UpdateSelect(c, id, new_data)
    \/ \E c \in Clients : UpdateWrite(c)
    \/ \E id \in Ids, s \in Statuses : Moderate(id, s)

SpecConc == Init /\ [][NextConc]_vars

(***************************************************************************)
(* The store with its reads, and patches that name the table's columns.    *)
(***************************************************************************)
ReadDocs == { FullDoc(User1, TimeZ), MinimalDoc(User2) }

ReadPatches == { [user |-> User2], [images |-> Images3], ColumnsPatch }

NextRead ==
    \/ \E data \in ReadDocs : AddPereval(data)
    \/ \E id \in Ids, new_data \in ReadPatches : UpdatePereval(id, new_data)
    \/ \E id \in Ids, s \in Statuses : Moderate(id, s)
    \/ \E id \in Ids : GetPerevalById(id)
    \/ \E email \in Emails : GetPerevalsByEmail(email)

SpecRead == Init /\ [][NextRead]_vars

(***************************************************************************)
(* One manager with its connection, over a storage that may fail a call.   *)
(***************************************************************************)
\* A document that has a key named as the id column is.
DocWithId == [title |-> "T1", user |-> User2, coords |-> Coords46, id |-> 1]

ConnDocs == { MinimalDoc(User1), DocWithId }

ConnIds == 1..MaxCreates

ConnPatches == { [images |-> Images3] }

NextConn ==
    \/ \E reachable \in BOOLEAN : Connect(reachable)
    \/ Disconnect
    \/ \E data \in ConnDocs, env \in Envs, burns \in BOOLEAN :
          AddPerevalCall(data, env, burns)
    \/ \E id \in ConnIds, env \in Envs : GetPerevalByIdCall(id, env)
    \/ \E email \in Emails, env \in Envs : GetPerevalsByEmailCall(email, env)
    \/ \E id \in ConnIds, new_data \in ConnPatches, env \in Envs,
          fail_at \in 1..2 :
          UpdatePerevalCall(id, new_data, env, fail_at)

SpecConn == Init /\ [][NextConn]_vars

(***************************************************************************)
(* The claims.                                                             *)
(***************************************************************************)
DocImages(doc) == IF "images" \in DOMAIN doc THEN doc.images ELSE <<>>

NewIds == { i \in DOMAIN db : db[i].status = "new" }

\* The row update_pereval(i, P) leaves, called in the current state.
RowAfter(i, P) == UpdateOutcome(db, i, P).db[i]

\* A client's write step: it held the row it selected and now returns.
Writes(c) == proc[c].pc = "selected" /\ proc'[c].pc = "idle"

\* C1: an update writes the record only if its status is "new" at the
\* instant of the write: when the status has left "new" between the
\* status check and the write, the write changes nothing and the call
\* does not report success.
C1_WriteOnlyIfNew ==
    [][\A c \in Clients :
         (Writes(c) /\ db[proc[c].pereval_id].status # "new")
            => (db' = db /\ ret'.state = 0)]_vars

\* C2: of two updates of one record whose reads and writes interleave, not
\* both succeed with the changes of one of them lost: an update that reports
\* success leaves what it would have left had it read the document at the
\* instant of its write.
C2_NoLostUpdate ==
    [][\A c \in Clients :
         (Writes(c) /\ ret'.state = 1)
            => db' = WriteRow(db, proc[c].pereval_id,
                              db[proc[c].pereval_id].raw_data,
                              proc[c].new_data)]_vars

\* C3: the 'user' block of every record stays what it was created with,
\* whatever is created or updated, patches carrying 'user' included.
C3_UserWriteOnce ==
    [][\A i \in DOMAIN db :
         /\ i \in DOMAIN db'
         /\ db'[i].raw_data.user = db[i].raw_data.user]_vars

C3_Witness ==
    /\ ret.op = "update" /\ ret.state = 1
    /\ db[ret.id].raw_data.user = User1
    /\ db[ret.id].raw_data.coords = CoordsHeight
    /\ \E P \in Patches :
          /\ "user" \in DOMAIN P /\ P.user # User1
          /\ MergeRawData(db[ret.id].raw_data, P) = db[ret.id].raw_data
          /\ ImagesJson(P) = db[ret.id].images

\* C4: after every successful write the separately stored image list is
\* the image list inside the stored document.
C4_ImagesConsistent ==
    \A i \in DOMAIN db : db[i].images.images = DocImages(db[i].raw_data)

\* C5: for a record whose status is not "new", every update with any patch
\* reports failure (state 0) and leaves document, image list and status as
\* they were; so does every PATCH request the handler is called with.
C5_NotNewRefused ==
    \A i \in DOMAIN db \ NewIds :
        /\ \A P \in Patches :
              /\ UpdateOutcome(db, i, P).db = db
              /\ UpdateOutcome(db, i, P).ret.state = 0
        /\ \A B \in Bodies :
              ValidBody(B) =>
                 /\ PatchOutcome(db, i, B).db = db
                 /\ PatchOutcome(db, i, B).ret.state = 0

C5_Witness ==
    /\ ret.op = "update" /\ ret.state = 0 /\ ret.kind = "forbidden"
    /\ db[ret.id].status = "pending"
    /\ ret.status = "pending"

\* C6 as claimed: a PATCH whose body carries 'user' is rejected as a caller
\* error and the record is not changed, whatever the record's status.
C6_UserPatchCallerError ==
    \A i \in DOMAIN db : \A B \in Bodies :
        "user" \in DOMAIN B =>
           /\ PatchOutcome(db, i, B).db = db
           /\ PatchOutcome(db, i, B).ret.http \in {400, 422}

\* C6 as amended: a PATCH whose body carries 'user' never succeeds and never
\* changes the record; it is the caller error (400) when the status is
\* "new", and the status refusal (state 0, answered 200) when it is not.
C6_UserPatchRefused ==
    \A i \in DOMAIN db : \A B \in Bodies :
        "user" \in DOMAIN B =>
           LET out == PatchOutcome(db, i, B) IN
           /\ out.db = db
           /\ out.ret.state = 0
           /\ ValidBody(B) =>
                 IF db[i].status = "new"
                 THEN out.ret.http = 400 /\ out.ret.kind = "user_data"
                 ELSE /\ out.ret.http = 200 /\ out.ret.kind = "forbidden"
                      /\ out.ret.status = db[i].status
           /\ ~ValidBody(B) => out.ret.http = 422

C6_Witness ==
    /\ ret.op = "patch" /\ ret.kind = "user_data"
    /\ db[ret.id].status = "new"

\* C7: a PATCH whose body carries no 'user', on a record whose status is
\* "new", succeeds, and every top-level field of the body then has the
\* body's value in the stored document.
C7_PatchSucceeds ==
    \A i \in NewIds : \A B \in Bodies :
        "user" \notin DOMAIN B =>
           /\ PatchOutcome(db, i, B).ret.state = 1
           /\ \A k \in DOMAIN B :
                 /\ k \in DOMAIN PatchOutcome(db, i, B).db[i].raw_data
                 /\ PatchOutcome(db, i, B).db[i].raw_data[k] = B[k]

\* C8 as claimed: every field of the stored document that the patch does
\* not carry, add_time included, is in the persisted document unchanged.
C8_AbsentFieldsKept ==
    \A i \in NewIds : \A P \in Patches :
        \A k \in DOMAIN db[i].raw_data \ DOMAIN P :
            /\ k \in DOMAIN RowAfter(i, P).raw_data
            /\ RowAfter(i, P).raw_data[k] = db[i].raw_data[k]

\* C8 as amended: every field the patch does not carry is persisted
\* unchanged, except add_time: a stored add_time that reads as an ISO time
\* is persisted in the form "T" separator, whole seconds, "Z" as "+00:00".
C8_AbsentFieldsKeptButAddTime ==
    \A i \in NewIds : \A P \in Patches :
        \A k \in DOMAIN db[i].raw_data \ DOMAIN P :
            LET old == db[i].raw_data[k]
                new == RowAfter(i, P).raw_data
            IN  /\ k \in DOMAIN new
                /\ IF k = "add_time" /\ old.iso
                   THEN /\ new[k].iso /\ new[k].sep = "T" /\ new[k].frac = ""
                        /\ new[k].tz = IF old.tz = "Z" THEN "+00:00" ELSE old.tz
                   ELSE new[k] = old

C8_Witness ==
    /\ ret.op = "update" /\ ret.state = 1
    /\ DOMAIN db[ret.id].raw_data = AllKeys
    /\ db[ret.id].raw_data.title = "T1"
    /\ db[ret.id].raw_data.user = User1
    /\ db[ret.id].raw_data.coords = CoordsHeight
    /\ db[ret.id].raw_data.images = Images12
    /\ db[ret.id].raw_data.add_time = TimeUtc

\* C9 as claimed: a patch carrying 'coords' with some of its keys leaves
\* the stored coords with the patch's values for those keys and the stored
\* values for the others.
C9_CoordsMergedByKey ==
    \A i \in NewIds : \A P \in Patches :
        ("coords" \in DOMAIN P /\ "coords" \in DOMAIN db[i].raw_data) =>
           LET old == db[i].raw_data.coords
               new == RowAfter(i, P).raw_data.coords
           IN  /\ DOMAIN new = DOMAIN old \cup DOMAIN P.coords
               /\ \A n \in DOMAIN new :
                     new[n] = IF n \in DOMAIN P.coords
                              THEN P.coords[n] ELSE old[n]

\* C9 as amended: a patch carrying 'coords' replaces the stored coords by
\* the patch's object: the keys the patch does not supply are gone.
C9_CoordsReplaced ==
    \A i \in NewIds : \A P \in Patches :
        "coords" \in DOMAIN P =>
           /\ DOMAIN RowAfter(i, P).raw_data.coords = DOMAIN P.coords
           /\ RowAfter(i, P).raw_data.coords = P.coords

C9_Witness ==
    /\ ret.op = "update" /\ ret.state = 1
    /\ DOMAIN db[ret.id].raw_data.coords = {"height"}
    /\ db[ret.id].raw_data.coords.height = "2600"

\* C10: after a successful update whose patch carries 'images', the image
\* list in the document and the one in the images column are the patch's
\* sequence, in order, and nothing of the previous sequence.
C10_ImagesReplaced ==
    \A i \in NewIds : \A P \in Patches :
        "images" \in DOMAIN P =>
           /\ UpdateOutcome(db, i, P).ret.state = 1
           /\ RowAfter(i, P).raw_data.images = P.images
           /\ RowAfter(i, P).images.images = P.images

C10_Witness ==
    /\ ret.op = "update" /\ ret.state = 1
    /\ "images" \in DOMAIN db[ret.id].raw_data
    /\ db[ret.id].raw_data.images = Images3
    /\ db[ret.id].images.images = Images3
    /\ db[ret.id].raw_data.user = User1

\* C11: for every record whose status is "new" and every patch, the update
\* with the patch made twice in succession leaves the document and the image
\* list that the update made once leaves.
C11_MergeIdempotent ==
    \A i \in NewIds : \A P \in Patches :
        LET once  == UpdateOutcome(db, i, P).db
            twice == UpdateOutcome(once, i, P).db
        IN  /\ twice[i].raw_data = once[i].raw_data
            /\ twice[i].images = once[i].images

\* An update went through, and the patch that carries coords and images
\* is one whose second application is the case.
C11_Witness ==
    /\ ret.op = "update" /\ ret.state = 1
    /\ ret.id \in NewIds
    /\ db[ret.id].raw_data.coords = CoordsHeight
    /\ db[ret.id].images.images = Images3
    /\ \E P \in Patches :
          /\ {"coords", "images"} \subseteq DOMAIN P
          /\ UpdateOutcome(db, ret.id, P).db = db

\* C12: a create followed by the fetch of the id it returned gives a record
\* with that id, status "new", and a document whose user, coords and title
\* are the submitted ones.
C12_CreateFetchRoundTrip ==
    [][\A data \in ReadDocs :
         AddPereval(data) =>
            LET fetched == GetOutcome(db', ret'.id)
            IN  /\ fetched # None
                /\ fetched.id = ret'.id
                /\ fetched.status = "new"
                /\ fetched.raw_data.user = data.user
                /\ fetched.raw_data.coords = data.coords
                /\ fetched.raw_data.title = data.title]_vars

\* The fetch of a record as it was created.
C12_Witness ==
    /\ ret.op = "get" /\ ret.value # None
    /\ ret.value.id = ret.id
    /\ ret.value.status = "new"
    /\ ret.value.raw_data = FullDoc(User1, TimeZ)

\* C13: the record get_pereval_by_id returns has a field 'images', the list
\* of the images last written for the record, in order.
C13_FetchedImagesField ==
    (ret.op = "get" /\ ret.value # None) =>
        /\ "images" \in DOMAIN ret.value
        /\ ret.value.images = DocImages(db[ret.id].raw_data)

\* The ids of the records in a list returned.
IdsOf(perevals_list) == { perevals_list[k].id : k \in DOMAIN perevals_list }

C15_ThreeOutcomes ==
    \A i \in Ids : \A P \in Patches :
        LET returned == UpdateReturn(db, i, P).items
            after == UpdateOutcome(db, i, P).db
        IN  IF i \notin DOMAIN db
            THEN /\ returned[1] = 0
                 /\ returned[2].text = "not_found"
                 /\ returned[2].arg = i
                 /\ after = db
                 /\ i \notin DOMAIN after
            ELSE IF db[i].status # "new"
            THEN /\ returned[1] = 0
                 /\ returned[2].text = "forbidden"
                 /\ returned[2].arg = db[i].status
            ELSE /\ returned[1] = 1
                 /\ returned[2].text = "updated"

\* An update of an id no row has: nothing is there after it.
C15_Witness ==
    /\ ret.op = "update" /\ ret.kind = "not_found"
    /\ ret.id \notin DOMAIN db

\* C16: what update_pereval(id, patch) returns is a record with the fields
\* 'state' and 'id': 'id' is the id passed in, 'state' is 1 when the update
\* was applied and 0 when it was refused for a status that is not "new".
C16_UpdateReturnsStateAndId ==
    \A i \in DOMAIN db : \A P \in Patches :
        LET returned == UpdateReturn(db, i, P)
        IN  /\ returned.type = "dict"
            /\ {"state", "id"} \subseteq DOMAIN returned.items
            /\ returned.items.id = i
            /\ returned.items.state = IF db[i].status = "new" THEN 1 ELSE 0

\* C17: the 'images' of the service's answers to fetch(id) and to
\* fetchBySubmitter(email) are, in order, the well-formed entries of the
\* record's stored image list: a record stored with n well-formed images
\* comes back with n images.
C17_FetchShapesImages ==
    /\ \A i \in DOMAIN db :
          FetchOutcome(db, i).http = 200 =>
             FetchOutcome(db, i).body.images
                = SelectSeq(db[i].images.images, WellFormed)
    /\ \A email \in Emails :
          \A formatted_list \in FetchByEmailOutcomes(db, email) :
             \A k \in DOMAIN formatted_list :
                formatted_list[k].images
                   = SelectSeq(db[formatted_list[k].id].images.images,
                               WellFormed)

\* C18: the service's submit of any valid document creates exactly one
\* record, with status "new", and answers state 1 with that record's id.
C18_SubmitCreates ==
    \A B \in Bodies :
        (ValidBody(B) /\ nextId <= MaxRecords) =>
           LET out == SubmitOutcome(db, nextId, B)
           IN  /\ out.ret.state = 1
               /\ out.ret.id = nextId
               /\ DOMAIN out.db = DOMAIN db \cup {nextId}
               /\ out.db[nextId].status = "new"
               /\ \A i \in DOMAIN db : out.db[i] = db[i]

\* C19 as claimed: every record a create makes has status "new", the
\* current time as date_added whatever the document holds, the document's
\* images (none when it has none) as image list, and the document as given.
C19_CreateDateIsNow ==
    [][\A data \in ServiceDocs :
         AddPereval(data) =>
            /\ db'[nextId].status = "new"
            /\ db'[nextId].date_added = NowStamp
            /\ db'[nextId].images.images = DocImages(data)
            /\ db'[nextId].raw_data = data]_vars

\* C19 as amended: status, image list and document are as claimed;
\* date_added is the time the document's add_time gives when it has one that
\* reads as a time (with a space between date and time and no 'Z': only
\* with whole seconds and no offset), and the current time otherwise.
C19_CreateDateFromAddTime ==
    [][\A data \in ServiceDocs :
         AddPereval(data) =>
            LET row == db'[nextId]
                reads == /\ "add_time" \in DOMAIN data
                         /\ data.add_time.iso
                         /\ \/ data.add_time.tz = "Z"
                            \/ data.add_time.sep # " "
                            \/ data.add_time.frac = "" /\ data.add_time.tz = ""
            IN  /\ row.status = "new"
                /\ row.images.images = DocImages(data)
                /\ row.raw_data = data
                /\ IF reads
                   THEN /\ row.date_added.src = "add_time"
                        /\ row.date_added.frac = data.add_time.frac
                        /\ row.date_added.tz =
                              IF data.add_time.tz = "Z" THEN "+00:00"
                              ELSE data.add_time.tz
                   ELSE row.date_added = NowStamp]_vars

\* A record created from a document whose add_time ends in 'Z'.
C19_Witness ==
    /\ ret.op = "add"
    /\ db[ret.id].raw_data = FullDoc(User1, TimeZ)
    /\ db[ret.id].date_added.src = "add_time"
    /\ db[ret.id].status = "new"

\* C20: no update, applied or refused, whatever its patch (patches with
\* keys named id, date_added and status included), changes a record's id,
\* date_added or status: the ids in the table and each record's date_added
\* and status are after the update what they were before it, and a status
\* changes in a moderation step only.
C20_UpdateFrame ==
    [][\A j \in DOMAIN db :
         /\ j \in DOMAIN db'
         /\ GetOutcome(db', j).id = GetOutcome(db, j).id
         /\ db'[j].date_added = db[j].date_added
         /\ db'[j].status # db[j].status =>
               \E s \in Statuses : Moderate(j, s)]_vars

\* An update with the patch that names the columns went through: its keys
\* are in the document, the columns are as the create set them.
C20_Witness ==
    /\ ret.op = "update" /\ ret.state = 1
    /\ {"id", "date_added", "status"} \subseteq DOMAIN db[ret.id].raw_data
    /\ db[ret.id].raw_data.status = "accepted"
    /\ db[ret.id].status = "new"
    /\ db[ret.id].date_added = DateAdded(FullDoc(User1, TimeZ))
    /\ GetOutcome(db, ret.id).id = ret.id

\* A connection that is live, as connect() leaves one.
LiveConn == [connection |-> "A", closed |-> FALSE, cursor |-> "A"]

\* C21: connect() on a manager whose connection is live returns True and
\* keeps the connection and the cursor, opening nothing; a connect() that
\* fails leaves connection and cursor None.
C21_ConnectIdempotent ==
    [][\A reachable \in BOOLEAN :
         Connect(reachable) =>
            /\ Live(conn) =>
                  /\ conn' = conn
                  /\ ret'.value = TRUE
                  /\ ret'.connects = 0
            /\ ret'.value = FALSE => conn' = NoConn]_vars

C21_Witness ==
    /\ ret.op = "connect"
    /\ ret.value = TRUE
    /\ ret.connects = 0
    /\ Live(conn)

\* C22: a call of add_pereval, get_pereval_by_id, get_perevals_by_email or
\* update_pereval for which the storage cannot be reached or a statement
\* raises leaves every record as it was, tries at most one connection and
\* runs no statement twice, and returns None (update: state 0 with a
\* message); get_perevals_by_email then returns None, which the list it
\* returns otherwise, the empty one too, is not.
C22_FailedCallNoRetryNoWrite ==
    [][\A env \in Envs \ {"ok"} :
         /\ ret'.op = "add" =>
               \A data \in ConnDocs, burns \in BOOLEAN :
                  AddPerevalCall(data, env, burns) =>
                     /\ db' = db
                     /\ ret'.value = None
                     /\ ret'.connects <= 1 /\ ret'.executes <= 1
         /\ ret'.op = "get" =>
               \A id \in ConnIds :
                  GetPerevalByIdCall(id, env) =>
                     /\ db' = db
                     /\ ret'.value = None
                     /\ ret'.connects <= 1 /\ ret'.executes <= 1
         /\ ret'.op = "by_email" =>
               \A email \in Emails :
                  /\ GetPerevalsByEmailCall(email, env) =>
                        /\ db' = db
                        /\ ret'.value = None
                        /\ ret'.connects <= 1 /\ ret'.executes <= 1
                  /\ GetPerevalsByEmailCall(email, "ok") =>
                        /\ ret'.value # None
                        /\ ret'.value.type = "list"
         /\ ret'.op = "update" =>
               \A id \in ConnIds, new_data \in ConnPatches, fail_at \in 1..2 :
                  UpdatePerevalCall(id, new_data, env, fail_at) =>
                     /\ db' = db
                     /\ ret'.value.type = "tuple"
                     /\ ret'.value.items[1] = 0
                     /\ ret'.value.items[2].text \in {"no_connection",
                                                      "storage_error"}
                     /\ ret'.connects <= 1 /\ ret'.executes <= 2]_vars

C22_Witness ==
    /\ ret.op = "update"
    /\ ret.kind = "storage_error"
    /\ ret.executes = 2
    /\ ret.id \in DOMAIN db
    /\ "images" \notin DOMAIN db[ret.id].raw_data

\* C23: an add_pereval that succeeds returns an id that no record present
\* has, whatever the document holds under 'id', and adds the one record of
\* that id, holding the document; every record present stays under its id,
\* where get_pereval_by_id finds it.
C23_IdsAssignedByStore ==
    [][/\ \A data \in ConnDocs, env \in Envs, burns \in BOOLEAN :
            (AddPerevalCall(data, env, burns) /\ ret'.state = 1) =>
               /\ ret'.id \notin DOMAIN db
               /\ DOMAIN db' = DOMAIN db \cup {ret'.id}
               /\ GetOutcome(db', ret'.id) # None
               /\ GetOutcome(db', ret'.id).id = ret'.id
               /\ GetOutcome(db', ret'.id).raw_data = data
       /\ \A i \in DOMAIN db :
            /\ GetOutcome(db', i) # None
            /\ GetOutcome(db', i).id = i
            /\ GetOutcome(db', i).date_added = GetOutcome(db, i).date_added
            /\ GetOutcome(db', i).raw_data.user
                  = GetOutcome(db, i).raw_data.user]_vars

C23_Witness ==
    /\ ret.op = "add"
    /\ ret.state = 1
    /\ ret.id = 2
    /\ DOMAIN db = {1, 2}
    /\ "id" \in DOMAIN db[2].raw_data
    /\ db[2].raw_data.id = 1

\* C24: disconnect(), whatever the connection was (none, live, closed),
\* leaves connection None or closed and cursor None; a call of the store
\* made with no connection, the storage answering, opens one and then does
\* and returns what it does and returns on a live connection.
C24_DisconnectThenReconnect ==
    [][/\ Disconnect =>
            /\ conn'.cursor = "None"
            /\ conn'.connection = "None" \/ conn'.closed
       /\ (conn.connection = "None" \/ conn.closed) =>
            /\ \A data \in ConnDocs, burns \in BOOLEAN :
                  AddPerevalCall(data, "ok", burns) =>
                     LET live == AddCallOutcome(db, nextId, LiveConn, data,
                                                "ok", burns)
                     IN  /\ Live(conn') /\ ret'.connects = 1
                         /\ db' = live.db
                         /\ ret'.value = live.ret.value
            /\ \A id \in ConnIds :
                  GetPerevalByIdCall(id, "ok") =>
                     LET live == GetCallOutcome(db, LiveConn, id, "ok")
                     IN  /\ Live(conn') /\ ret'.connects = 1
                         /\ db' = db
                         /\ ret'.value = live.ret.value
            /\ \A email \in Emails :
                  GetPerevalsByEmailCall(email, "ok") =>
                     /\ Live(conn') /\ ret'.connects = 1
                     /\ db' = db
                     /\ \E live \in EmailCallOutcomes(db, LiveConn, email, "ok") :
                           ret'.value = live.ret.value
            /\ \A id \in ConnIds, new_data \in ConnPatches, fail_at \in 1..2 :
                  UpdatePerevalCall(id, new_data, "ok", fail_at) =>
                     LET live == UpdateCallOutcome(db, LiveConn, id, new_data,
                                                   "ok", fail_at)
                     IN  /\ Live(conn') /\ ret'.connects = 1
                         /\ db' = live.db
                         /\ ret'.value = live.ret.value]_vars

C24_Witness ==
    /\ ret.op = "disconnect"
    /\ conn = NoConn
    /\ DOMAIN db # {}

\* C25: in the service's answers to fetch(id) and to
\* fetchBySubmitter(email), id, date_added and status are the record's id,
\* date_added and status columns, also for a record whose document has keys
\* of these names.
C25_FetchColumnsWin ==
    /\ \A i \in DOMAIN db :
          FetchOutcome(db, i).http = 200 =>
             /\ FetchOutcome(db, i).body.id = i
             /\ FetchOutcome(db, i).body.date_added
                   = IsoFormat(db[i].date_added)
             /\ FetchOutcome(db, i).body.status = db[i].status
    /\ \A email \in Emails :
          \A formatted_list \in FetchByEmailOutcomes(db, email) :
             \A k \in DOMAIN formatted_list :
                \E i \in EmailMatches(db, email) :
                   /\ formatted_list[k].id = i
                   /\ formatted_list[k].date_added
                         = IsoFormat(db[i].date_added)
                   /\ formatted_list[k].status = db[i].status

C25_Witness ==
    /\ ret.op = "fetch"
    /\ ret.http = 200
    /\ ret.id \in DOMAIN db
    /\ "status" \in DOMAIN db[ret.id].raw_data
    /\ db[ret.id].raw_data.status # db[ret.id].status
    /\ ret.body.status = db[ret.id].status

====
